---- MODULE Spec2Model ----
(***************************************************************************)
(* The Dashboard component (src/components/Dashboard.tsx) with its shell   *)
(* (src/App.tsx) as a state machine, and the aggregation it derives from   *)
(* the row buffer as operators.                                            *)
(*                                                                         *)
(* One action is one event handler (or one promise continuation) together  *)
(* with the render and the effects React runs right after it: the realtime *)
(* effect (lines 90-103), the fetch effect (85-87) and the insight effect  *)
(* (114-119).  State updates made in one continuation are batched.         *)
(*                                                                         *)
(* JavaScript values are tagged records: Num(n), NaN, Str(chars), Null,    *)
(* Undefined, DateStr(y, m, d).  Strings that the code inspects (column    *)
(* names, cell texts) are sequences of one-character strings, so that      *)
(* toLowerCase, includes and Number are computed and not looked up.  A row *)
(* is a sequence of [key, val] pairs in key iteration order.               *)
(***************************************************************************)
EXTENDS Integers, Sequences, FiniteSets, TLC

VARIABLES
    tableName,    \* App.tsx:7       the active table name (prop of Dashboard)
    data,         \* Dashboard:37    the row buffer
    loading,      \* Dashboard:38
    error,        \* Dashboard:39    Null or [kind, table]
    tableExists,  \* Dashboard:40
    insights,     \* Dashboard:42    Null or [kind |-> "insight", table]
    analyzing,    \* Dashboard:43
    fetches,      \* fetchData invocations in flight: [table, stage]
    analyses,     \* generateInsights requests in flight: [table]
    channel,      \* table of the subscribed realtime channel, or NoChannel
    delivered     \* number of INSERT events delivered so far

vars == <<tableName, data, loading, error, tableExists, insights, analyzing,
          fetches, analyses, channel, delivered>>

----------------------------------------------------------------------------
(* Bounds of the model *)

\* The size of the row buffer.  The code's 1000 (lines 65 and 96) is scaled
\* down so that the overflow of the buffer is reached.
RowLimit == 3
\* INSERT events delivered in one behaviour of Spec.
MaxInserts == 2
\* fetchData invocations in flight at once.
MaxInFlight == 2
\* Rows inserted in one behaviour of SpecAgg.
MaxAggRows == 3

----------------------------------------------------------------------------
(* JavaScript values *)

Null == [kind |-> "null"]
Undefined == [kind |-> "undefined"]
NaN == [kind |-> "nan"]
Num(n) == [kind |-> "num", n |-> n]
Str(s) == [kind |-> "str", s |-> s]
\* A string holding the ISO date y-(m+1)-d; m is the zero-based month.
DateStr(y, m, d) == [kind |-> "date", y |-> y, m |-> m, d |-> d]

MinOf(S) == CHOOSE x \in S : \A y \in S : x <= y

Digits == <<"0", "1", "2", "3", "4", "5", "6", "7", "8", "9">>
IsDigit(c) == \E i \in 1..10 : Digits[i] = c
DigitVal(c) == (CHOOSE i \in 1..10 : Digits[i] = c) - 1

RECURSIVE DigitsToNat(_)
DigitsToNat(s) ==
    IF s = <<>> THEN 0
    ELSE 10 * DigitsToNat(SubSeq(s, 1, Len(s) - 1)) + DigitVal(s[Len(s)])

RECURSIVE NatToDigits(_)
NatToDigits(n) ==
    IF n < 10 THEN <<Digits[n + 1]>>
    ELSE NatToDigits(n \div 10) \o <<Digits[(n % 10) + 1]>>

\* Number(v): null and "" give 0, a decimal integer text its value, every
\* other text and undefined give NaN.
ToNumber(v) ==
    CASE v.kind = "num" -> v
      [] v.kind = "null" -> Num(0)
      [] v.kind = "str" ->
            IF v.s = <<>> THEN Num(0)
            ELSE IF \A i \in 1..Len(v.s) : IsDigit(v.s[i]) THEN Num(DigitsToNat(v.s))
            ELSE IF /\ Len(v.s) > 1
                    /\ v.s[1] = "-"
                    /\ \A i \in 2..Len(v.s) : IsDigit(v.s[i])
                 THEN Num(0 - DigitsToNat(Tail(v.s)))
            ELSE NaN
      [] OTHER -> NaN

\* ToBoolean(v)
Truthy(v) ==
    CASE v.kind = "num" -> v.n # 0
      [] v.kind = "str" -> v.s # <<>>
      [] v.kind = "date" -> TRUE
      [] OTHER -> FALSE

\* a || b
OrElse(a, b) == IF Truthy(a) THEN a ELSE b

\* a + b and a - b on numbers
JsAdd(a, b) == IF a.kind = "nan" \/ b.kind = "nan" THEN NaN ELSE Num(a.n + b.n)
JsSub(a, b) == IF a.kind = "nan" \/ b.kind = "nan" THEN NaN ELSE Num(a.n - b.n)

\* String(v) of a value that is truthy
ToStringChars(v) ==
    CASE v.kind = "str" -> v.s
      [] v.kind = "num" ->
            IF v.n < 0 THEN <<"-">> \o NatToDigits(0 - v.n) ELSE NatToDigits(v.n)
      [] v.kind = "date" ->
            NatToDigits(v.y) \o <<"-">> \o NatToDigits(v.m + 1) \o <<"-">> \o NatToDigits(v.d)
      [] OTHER -> <<>>

Upper == <<"A", "B", "C", "D", "E", "F", "G", "H", "I", "J", "K", "L", "M",
           "N", "O", "P", "Q", "R", "S", "T", "U", "V", "W", "X", "Y", "Z">>
LowerLetters == <<"a", "b", "c", "d", "e", "f", "g", "h", "i", "j", "k", "l", "m",
                  "n", "o", "p", "q", "r", "s", "t", "u", "v", "w", "x", "y", "z">>
LowerChar(c) ==
    IF \E i \in 1..26 : Upper[i] = c
    THEN LowerLetters[CHOOSE i \in 1..26 : Upper[i] = c]
    ELSE c
\* s.toLowerCase()
ToLowerCase(s) == [i \in 1..Len(s) |-> LowerChar(s[i])]
\* s.includes(c)
Includes(s, c) ==
    \E i \in 0..(Len(s) - Len(c)) : SubSeq(s, i + 1, i + Len(c)) = c

\* row[key]: the value under key, undefined when the row has no such key
Get(row, key) ==
    IF \E i \in 1..Len(row) : row[i].key = key
    THEN row[MinOf({i \in 1..Len(row) : row[i].key = key})].val
    ELSE Undefined

----------------------------------------------------------------------------
(* Column names and candidate lists *)

K_id == <<"i", "d">>
K_order == <<"o", "r", "d", "e", "r">>
K_name == <<"n", "a", "m", "e">>
K_created_at == <<"c", "r", "e", "a", "t", "e", "d", "_", "a", "t">>
K_date == <<"d", "a", "t", "e">>
K_time == <<"t", "i", "m", "e">>
K_department == <<"d", "e", "p", "a", "r", "t", "m", "e", "n", "t">>
K_category == <<"c", "a", "t", "e", "g", "o", "r", "y">>
K_dept == <<"d", "e", "p", "t">>
K_group == <<"g", "r", "o", "u", "p">>
K_revenue == <<"r", "e", "v", "e", "n", "u", "e">>
K_sales == <<"s", "a", "l", "e", "s">>
K_amount == <<"a", "m", "o", "u", "n", "t">>
K_total == <<"t", "o", "t", "a", "l">>
K_price == <<"p", "r", "i", "c", "e">>
K_expense == <<"e", "x", "p", "e", "n", "s", "e">>
K_expenses == <<"e", "x", "p", "e", "n", "s", "e", "s">>
K_cost == <<"c", "o", "s", "t">>
K_spending == <<"s", "p", "e", "n", "d", "i", "n", "g">>
K_profit == <<"p", "r", "o", "f", "i", "t">>
K_net == <<"n", "e", "t">>
K_margin == <<"m", "a", "r", "g", "i", "n">>

DateCandidates == <<K_created_at, K_date, K_time>>
DeptCandidates == <<K_department, K_category, K_dept, K_group>>
RevCandidates == <<K_revenue, K_sales, K_amount, K_total, K_price>>
ExpCandidates == <<K_expense, K_cost, K_spending>>
ProfitCandidates == <<K_profit, K_net, K_margin>>
IdCandidates == <<K_id, K_order, K_name>>

\* findKey that answers the first column holding any candidate at all:
\* the order of the columns decides, not the order of the candidates.
findKeyByColumnOrder(row, candidates) ==
    LET hits == {i \in 1..Len(row) :
                    \E j \in 1..Len(candidates) :
                        Includes(ToLowerCase(row[i].key), candidates[j])}
    IN  IF hits = {} THEN [found |-> FALSE]
        ELSE [found |-> TRUE, key |-> row[MinOf(hits)].key]

\* findKey(row, candidates): [found |-> TRUE, key] or [found |-> FALSE]
\* (undefined).
findKey(row, candidates) ==
    LET keys == [i \in 1..Len(row) |-> ToLowerCase(row[i].key)]
        hits == {j \in 1..Len(candidates) :
                    \E i \in 1..Len(keys) : Includes(keys[i], candidates[j])}
    IN  IF hits = {} THEN [found |-> FALSE]
        ELSE LET found == candidates[MinOf(hits)]
                 at == MinOf({i \in 1..Len(row) :
                                 Includes(ToLowerCase(row[i].key), found)})
             IN  [found |-> TRUE, key |-> row[at].key]

\* findKey(...) || fallback
KeyOr(res, fallback) == IF res.found /\ res.key # <<>> THEN res.key ELSE fallback

----------------------------------------------------------------------------
(* Dates *)

InvalidDate == [valid |-> FALSE]
\* new Date(v): a date text parses to its date, null is the epoch (time 0),
\* a number is that many milliseconds after the epoch (the rows of the model
\* hold none beyond January 1970), undefined and every other text are
\* invalid.  Times are taken in UTC.
NewDate(v) ==
    CASE v.kind = "date" -> [valid |-> TRUE, y |-> v.y, m |-> v.m, d |-> v.d]
      [] v.kind = "null" -> [valid |-> TRUE, y |-> 1970, m |-> 0, d |-> 1]
      [] v.kind = "num" -> [valid |-> TRUE, y |-> 1970, m |-> 0, d |-> 1]
      [] OTHER -> InvalidDate

\* d.getTime(): NaN for an invalid date, else a number monotone in the date
\* (days instead of milliseconds)
GetTime(d) == IF d.valid THEN Num(((d.y * 12) + d.m) * 31 + d.d) ELSE NaN

\* The comparator of line 71-74: a NaN difference counts as 0.
DateCompare(a, b, dateK) ==
    IF ~dateK.found THEN 0
    ELSE LET diff == JsSub(GetTime(NewDate(Get(a, dateK.key))),
                           GetTime(NewDate(Get(b, dateK.key))))
         IN  IF diff.kind = "nan" THEN 0 ELSE diff.n

\* Insert x after the last element that does not compare greater: a stable
\* insertion sort, which is what sort() gives for a consistent comparator.
RECURSIVE InsertByDate(_, _, _)
InsertByDate(sorted, x, dateK) ==
    IF sorted = <<>> THEN <<x>>
    ELSE IF DateCompare(sorted[Len(sorted)], x, dateK) <= 0 THEN Append(sorted, x)
    ELSE Append(InsertByDate(SubSeq(sorted, 1, Len(sorted) - 1), x, dateK),
                sorted[Len(sorted)])

RECURSIVE SortRowsFrom(_, _, _)
SortRowsFrom(rows, n, dateK) ==
    IF n = 0 THEN <<>>
    ELSE InsertByDate(SortRowsFrom(rows, n - 1, dateK), rows[n], dateK)

\* lines 70-74: sortedRows
SortByDate(rows) ==
    LET dateK == IF Len(rows) > 0 THEN findKey(rows[1], DateCandidates)
                 ELSE [found |-> FALSE]
    IN  SortRowsFrom(rows, Len(rows), dateK)

----------------------------------------------------------------------------
(* The data source: two tables.  "orders" has a created_at column and      *)
(* holds up to RowLimit + 1 rows, stored newest first; "events" has no     *)
(* date column.  checkTableExists and select may fail for either.          *)

Tables == {"orders", "events"}
\* DEFAULT_TABLE of ./constants, imported at App.tsx:3
DefaultTable == "orders"
NoChannel == "none"

TableSize(t) == IF t = "orders" THEN RowLimit + 1 ELSE 2

StoredRow(t, i) ==
    IF t = "orders"
    THEN <<[key |-> K_id, val |-> Num(i)],
           [key |-> K_created_at, val |-> DateStr(2024, RowLimit + 1 - i, 1)]>>
    ELSE <<[key |-> K_id, val |-> Num(50 + i)],
           [key |-> K_amount, val |-> Num(i)]>>

\* payload.new of the k-th INSERT event, on the channel of table t
LiveRow(t, k) ==
    IF t = "orders"
    THEN <<[key |-> K_id, val |-> Num(100 + k)],
           [key |-> K_created_at, val |-> DateStr(2025, k - 1, 1)]>>
    ELSE <<[key |-> K_id, val |-> Num(150 + k)],
           [key |-> K_amount, val |-> Num(k)]>>

RowsOfTable(t) ==
    {StoredRow(t, i) : i \in 1..TableSize(t)} \cup {LiveRow(t, k) : k \in 1..MaxInserts}

\* lines 62-65: select('*').limit(1000) on a table that holds n rows
SelectLimit(t, n) ==
    [i \in 1..(IF n < RowLimit THEN n ELSE RowLimit) |-> StoredRow(t, i)]

\* What the select of line 62 can resolve to: a fetchError, or the rows of
\* the table, which is empty or holds TableSize(t) rows.
SelectResults(t) ==
    {[ok |-> FALSE]} \cup {[ok |-> TRUE, rows |-> SelectLimit(t, n)] : n \in {0, TableSize(t)}}

----------------------------------------------------------------------------
(* Render and effects *)

\* The render without the guard of line 222: an error does not hide the
\* dashboard.
ViewWithoutErrorGuard(l, e, d) ==
    IF l THEN "spinner"
    ELSE IF Len(d) = 0 THEN (IF e # Null THEN "error" ELSE "empty")
    ELSE "dashboard"

\* lines 220-251: what the component renders.  The aggregates, the refresh
\* button and the InsightsPanel are in the "dashboard" view only; the
\* "error" view holds the form of handleTableUpdate.
View(l, e, d) ==
    IF l THEN "spinner"
    ELSE IF e # Null THEN "error"
    ELSE IF Len(d) = 0 THEN "empty"
    ELSE "dashboard"

\* lines 90-103: the realtime effect keeps a channel on tableName exactly
\* while the table exists, nothing loads and no error is set.
Subscribed(tn, te, l, e) == IF te /\ ~l /\ e = Null THEN tn ELSE NoChannel

\* The insight effect without the !analyzing conjunct of line 115.
InsightEffectFiresWhileAnalyzing(oldLen, newLen, ins, an) ==
    newLen # oldLen /\ newLen > 0 /\ ins = Null

\* lines 114-119: the insight effect runs when data.length changed and
\* calls triggerAnalysis under its guard.
InsightEffectFires(oldLen, newLen, ins, an) ==
    newLen # oldLen /\ newLen > 0 /\ ins = Null /\ ~an

\* The update of line 96 with slice(0, 1000): the oldest rows are kept.
AppendCappedKeepsOldest(prev, row) ==
    LET all == Append(prev, row)
    IN  IF Len(all) <= RowLimit THEN all ELSE SubSeq(all, 1, RowLimit)

\* line 96: [...prev, payload.new].slice(-1000)
AppendCapped(prev, row) ==
    LET all == Append(prev, row)
    IN  IF Len(all) <= RowLimit THEN all
        ELSE SubSeq(all, Len(all) - RowLimit + 1, Len(all))

RemoveAt(s, i) == SubSeq(s, 1, i - 1) \o SubSeq(s, i + 1, Len(s))

\* lines 48-54: fetchData up to its first await, called with tableName = t
StartFetch(t) ==
    /\ loading' = TRUE
    /\ error' = Null
    /\ fetches' = Append(fetches, [table |-> t, stage |-> "check"])
    /\ channel' = Subscribed(t, tableExists, TRUE, Null)

\* The insight effect after a step that set the buffer to newData.
RunInsightEffect(newData) ==
    IF InsightEffectFires(Len(data), Len(newData), insights, analyzing)
    THEN /\ analyzing' = TRUE
         /\ analyses' = Append(analyses, [table |-> tableName])
    ELSE UNCHANGED <<analyzing, analyses>>

----------------------------------------------------------------------------
(* Init: the first render and its effects: the state of lines 37-44, and   *)
(* the fetch effect (85-87) has called fetchData for the default table.    *)

Init ==
    /\ tableName = DefaultTable
    /\ data = <<>>
    /\ loading = TRUE
    /\ error = Null
    /\ tableExists = FALSE
    /\ insights = Null
    /\ analyzing = FALSE
    /\ fetches = <<[table |-> DefaultTable, stage |-> "check"]>>
    /\ analyses = <<>>
    /\ channel = NoChannel
    /\ delivered = 0

----------------------------------------------------------------------------
(* Actions *)

\* App.tsx 11-15: the configuration form sets tableName; fetchData gets a new
\* identity (line 83) and the fetch effect (85-87) calls it.  Submitting the
\* current name changes nothing.
HandleTableSubmit(t) ==
    /\ t # tableName
    /\ Len(fetches) < MaxInFlight
    /\ tableName' = t
    /\ StartFetch(t)
    /\ UNCHANGED <<data, tableExists, insights, analyzing, analyses, delivered>>

\* lines 121-127 with App.tsx 82-85: the form of the error view
HandleTableUpdate(t) ==
    /\ View(loading, error, data) = "error"
    /\ t # tableName
    /\ Len(fetches) < MaxInFlight
    /\ tableName' = t
    /\ StartFetch(t)
    /\ UNCHANGED <<data, tableExists, insights, analyzing, analyses, delivered>>

\* line 267: the refresh button of the dashboard view calls fetchData
RefreshClick ==
    /\ View(loading, error, data) = "dashboard"
    /\ Len(fetches) < MaxInFlight
    /\ StartFetch(tableName)
    /\ UNCHANGED <<tableName, data, tableExists, insights, analyzing, analyses,
                   delivered>>

\* lines 54-60 and 77-82: checkTableExists resolved for fetch i
CheckTableDone(i, exists) ==
    /\ fetches[i].stage = "check"
    /\ IF exists
       THEN /\ tableExists' = TRUE
            /\ fetches' = [fetches EXCEPT ![i].stage = "select"]
            /\ channel' = Subscribed(tableName, TRUE, loading, error)
            /\ UNCHANGED <<loading, error>>
       ELSE /\ tableExists' = FALSE
            /\ error' = [kind |-> "notfound", table |-> fetches[i].table]
            /\ loading' = FALSE
            /\ fetches' = RemoveAt(fetches, i)
            /\ channel' = NoChannel
    /\ UNCHANGED <<tableName, data, insights, analyzing, analyses, delivered>>

\* lines 62-82: the select resolved for fetch i
SelectDone(i, res) ==
    /\ fetches[i].stage = "select"
    /\ fetches' = RemoveAt(fetches, i)
    /\ loading' = FALSE
    /\ IF res.ok
       THEN /\ data' = SortByDate(res.rows)
            /\ error' = error
            /\ RunInsightEffect(SortByDate(res.rows))
       ELSE /\ error' = [kind |-> "fetch", table |-> fetches[i].table]
            /\ UNCHANGED <<data, analyzing, analyses>>
    /\ channel' = Subscribed(tableName, tableExists, FALSE, error')
    /\ UNCHANGED <<tableName, tableExists, insights, delivered>>

\* lines 95-97: an INSERT event on the subscribed channel
RealtimeInsert(row) ==
    /\ channel # NoChannel
    /\ data' = AppendCapped(data, row)
    /\ delivered' = delivered + 1
    /\ RunInsightEffect(AppendCapped(data, row))
    /\ UNCHANGED <<tableName, loading, error, tableExists, insights, fetches,
                   channel>>

\* part_000 19-25 and lines 106-109: the button of the InsightsPanel, disabled
\* while analyzing, calls triggerAnalysis
RefreshInsightsClick ==
    /\ View(loading, error, data) = "dashboard"
    /\ ~analyzing
    /\ Len(data) # 0
    /\ analyzing' = TRUE
    /\ analyses' = Append(analyses, [table |-> tableName])
    /\ UNCHANGED <<tableName, data, loading, error, tableExists, insights,
                   fetches, channel, delivered>>

\* supabaseClient.ts 32-83: what generateInsights resolves to for a request
InsightResults(req) == {Null, [kind |-> "insight", table |-> req.table]}

\* lines 109-111: generateInsights resolved for request i
InsightsDone(i, res) ==
    /\ insights' = res
    /\ analyzing' = FALSE
    /\ analyses' = RemoveAt(analyses, i)
    /\ UNCHANGED <<tableName, data, loading, error, tableExists, fetches,
                   channel, delivered>>

Next ==
    \/ \E t \in Tables : HandleTableSubmit(t)
    \/ \E t \in Tables : HandleTableUpdate(t)
    \/ RefreshClick
    \/ \E i \in 1..Len(fetches), exists \in BOOLEAN : CheckTableDone(i, exists)
    \/ \E i \in 1..Len(fetches) :
          \E res \in SelectResults(fetches[i].table) : SelectDone(i, res)
    \/ /\ delivered < MaxInserts
       /\ RealtimeInsert(LiveRow(channel, delivered + 1))
    \/ RefreshInsightsClick
    \/ \E i \in 1..Len(analyses) :
          \E res \in InsightResults(analyses[i]) : InsightsDone(i, res)

Spec == Init /\ [][Next]_vars

----------------------------------------------------------------------------
(* The aggregation: the useMemo callback of lines 131-216 as operators on  *)
(* the row buffer.  An object used as a map (monthlyData, deptStats) is    *)
(* the sequence of its own entries in insertion order, together with the   *)
(* keys every object inherits from Object.prototype.                       *)

\* lines 137-142: the role keys, read off the first row
RoleKeys(sample) ==
    [deptKey |-> KeyOr(findKey(sample, DeptCandidates), K_department),
     revKey |-> KeyOr(findKey(sample, RevCandidates), K_revenue),
     expKey |-> KeyOr(findKey(sample, ExpCandidates), K_expenses),
     profitKey |-> KeyOr(findKey(sample, ProfitCandidates), K_profit),
     dateKey |-> KeyOr(findKey(sample, DateCandidates), K_created_at),
     idKey |-> KeyOr(findKey(sample, IdCandidates), K_id)]

\* line 152: Number(row[revKey]) || 0
RowRev(row, keys) == OrElse(ToNumber(Get(row, keys.revKey)), Num(0))
\* line 153: Number(row[expKey]) || 0
RowExp(row, keys) == OrElse(ToNumber(Get(row, keys.expKey)), Num(0))
\* line 155: row[profitKey] !== undefined ? Number(row[profitKey]) : (rev - exp)
RowProfit(row, keys) ==
    IF Get(row, keys.profitKey) # Undefined
    THEN ToNumber(Get(row, keys.profitKey))
    ELSE JsSub(RowRev(row, keys), RowExp(row, keys))
\* lines 200-202: _derivedProfit of the top orders
TopOrderProfit(row, keys) ==
    LET rev == OrElse(ToNumber(Get(row, keys.revKey)), Num(0))
        exp == OrElse(ToNumber(Get(row, keys.expKey)), Num(0))
    IN  IF Get(row, keys.profitKey) # Undefined
        THEN ToNumber(Get(row, keys.profitKey))
        ELSE JsSub(rev, exp)

MonthNames ==
    << <<"J", "a", "n">>, <<"F", "e", "b">>, <<"M", "a", "r">>, <<"A", "p", "r">>,
       <<"M", "a", "y">>, <<"J", "u", "n">>, <<"J", "u", "l">>, <<"A", "u", "g">>,
       <<"S", "e", "p">>, <<"O", "c", "t">>, <<"N", "o", "v">>, <<"D", "e", "c">> >>
UnknownLabel == <<"U", "n", "k", "n", "o", "w", "n">>
UnassignedLabel == <<"U", "n", "a", "s", "s", "i", "g", "n", "e", "d">>

\* line 163: toLocaleString('default', {month: 'short', year: '2-digit'})
MonthLabel(d) ==
    MonthNames[d.m + 1] \o <<" ">>
        \o <<Digits[((d.y % 100) \div 10) + 1], Digits[(d.y % 10) + 1]>>

\* lines 158-166: month and sortKey of a row
RowMonth(row, keys) ==
    LET d == NewDate(Get(row, keys.dateKey))
    IN  IF GetTime(d).kind # "nan"
        THEN [month |-> MonthLabel(d), sortKey |-> d.y * 100 + d.m]
        ELSE [month |-> UnknownLabel, sortKey |-> 0]

\* line 173: String(row[deptKey] || 'Unassigned')
RowDept(row, keys) == ToStringChars(OrElse(Get(row, keys.deptKey), Str(UnassignedLabel)))

\* Keys that {} (lines 146, 149) inherits from Object.prototype, each with a
\* truthy value: obj[key] is truthy although obj has no such entry.
ObjectPrototypeKeys ==
    { <<"c", "o", "n", "s", "t", "r", "u", "c", "t", "o", "r">>,
      <<"t", "o", "S", "t", "r", "i", "n", "g">>,
      <<"v", "a", "l", "u", "e", "O", "f">>,
      <<"h", "a", "s", "O", "w", "n", "P", "r", "o", "p", "e", "r", "t", "y">>,
      <<"_", "_", "p", "r", "o", "t", "o", "_", "_">> }

\* lines 168-170: the row folded into monthlyData.  When monthlyData[month]
\* is an inherited value, no entry is made and the += lands on that value.
FoldMonthly(acc, row, keys) ==
    LET rm == RowMonth(row, keys)
        own == {i \in 1..Len(acc) : acc[i].month = rm.month}
        acc1 == IF own # {} THEN acc
                ELSE Append(acc, [month |-> rm.month, revenue |-> Num(0),
                                  profit |-> Num(0), sortKey |-> rm.sortKey])
        at == MinOf({i \in 1..Len(acc1) : acc1[i].month = rm.month})
    IN  IF own = {} /\ rm.month \in ObjectPrototypeKeys THEN acc
        ELSE [acc1 EXCEPT ![at].revenue = JsAdd(@, RowRev(row, keys)),
                          ![at].profit = JsAdd(@, RowProfit(row, keys))]

\* lines 173-177: the row folded into deptStats, likewise
FoldDept(acc, row, keys) ==
    LET dept == RowDept(row, keys)
        own == {i \in 1..Len(acc) : acc[i].name = dept}
        acc1 == IF own # {} THEN acc
                ELSE Append(acc, [name |-> dept, revenue |-> Num(0),
                                  expenses |-> Num(0), profit |-> Num(0)])
        at == MinOf({i \in 1..Len(acc1) : acc1[i].name = dept})
    IN  IF own = {} /\ dept \in ObjectPrototypeKeys THEN acc
        ELSE [acc1 EXCEPT ![at].revenue = JsAdd(@, RowRev(row, keys)),
                          ![at].expenses = JsAdd(@, RowExp(row, keys)),
                          ![at].profit = JsAdd(@, RowProfit(row, keys))]

\* lines 151-178: data.forEach, the first n rows folded
RECURSIVE MonthlyData(_, _, _)
MonthlyData(rows, n, keys) ==
    IF n = 0 THEN <<>>
    ELSE FoldMonthly(MonthlyData(rows, n - 1, keys), rows[n], keys)

RECURSIVE DeptStats(_, _, _)
DeptStats(rows, n, keys) ==
    IF n = 0 THEN <<>>
    ELSE FoldDept(DeptStats(rows, n - 1, keys), rows[n], keys)

\* line 181: sort((a, b) => a.sortKey - b.sortKey), a stable sort
RECURSIVE InsertBySortKey(_, _)
InsertBySortKey(sorted, x) ==
    IF sorted = <<>> THEN <<x>>
    ELSE IF sorted[Len(sorted)].sortKey - x.sortKey <= 0 THEN Append(sorted, x)
    ELSE Append(InsertBySortKey(SubSeq(sorted, 1, Len(sorted) - 1), x),
                sorted[Len(sorted)])

RECURSIVE SortBySortKey(_, _)
SortBySortKey(buckets, n) ==
    IF n = 0 THEN <<>>
    ELSE InsertBySortKey(SortBySortKey(buckets, n - 1), buckets[n])

\* line 181: monthlyChartData
MonthlyChartData(rows, keys) ==
    LET monthly == MonthlyData(rows, Len(rows), keys)
    IN  SortBySortKey(monthly, Len(monthly))

\* line 29: COLORS
COLORS == <<"#6366f1", "#ec4899", "#10b981", "#f59e0b", "#06b6d4", "#8b5cf6",
            "#a855f7", "#ef4444">>
\* line 195: slice(0, 5)
TopExpenses == 5
\* line 206: slice(0, 10)
TopOrdersCount == 10

\* a.localeCompare(b) (line 186) on names made of the characters below, in
\* the order of the root collation: the letters compared without case
\* first, a shorter name before its extensions, and, between names that
\* differ in case only, the lower-case letter first.
CollationAlphabet ==
    <<" ", "_", "-", "0", "1", "2", "3", "4", "5", "6", "7", "8", "9",
      "a", "b", "c", "d", "e", "f", "g", "h", "i", "j", "k", "l", "m",
      "n", "o", "p", "q", "r", "s", "t", "u", "v", "w", "x", "y", "z">>
PrimaryWeight(c) ==
    LET at == {i \in 1..Len(CollationAlphabet) : CollationAlphabet[i] = LowerChar(c)}
    IN  IF at = {} THEN 0 ELSE MinOf(at)

RECURSIVE ComparePrimary(_, _)
ComparePrimary(a, b) ==
    IF a = <<>> THEN (IF b = <<>> THEN 0 ELSE 0 - 1)
    ELSE IF b = <<>> THEN 1
    ELSE IF PrimaryWeight(a[1]) < PrimaryWeight(b[1]) THEN 0 - 1
    ELSE IF PrimaryWeight(a[1]) > PrimaryWeight(b[1]) THEN 1
    ELSE ComparePrimary(Tail(a), Tail(b))

CompareCase(a, b) ==
    LET diff == {i \in 1..Len(a) : a[i] # b[i]}
    IN  IF diff = {} THEN 0
        ELSE IF LowerChar(a[MinOf(diff)]) = a[MinOf(diff)] THEN 0 - 1 ELSE 1

localeCompare(a, b) ==
    LET primary == ComparePrimary(a, b)
    IN  IF primary # 0 THEN primary ELSE CompareCase(a, b)

\* line 186: sort((a, b) => a.name.localeCompare(b.name)), a stable sort
RECURSIVE InsertByName(_, _)
InsertByName(sorted, x) ==
    IF sorted = <<>> THEN <<x>>
    ELSE IF localeCompare(sorted[Len(sorted)].name, x.name) <= 0 THEN Append(sorted, x)
    ELSE Append(InsertByName(SubSeq(sorted, 1, Len(sorted) - 1), x),
                sorted[Len(sorted)])

RECURSIVE SortByName(_, _)
SortByName(stats, n) ==
    IF n = 0 THEN <<>>
    ELSE InsertByName(SortByName(stats, n - 1), stats[n])

\* The chart data with the colours given after the sort by expenses: the
\* fill follows the position in the by-expense order.
DeptChartDataColouredLate(stats) ==
    LET sorted == SortByName(stats, Len(stats))
        rank(i) == Cardinality({j \in 1..Len(sorted) :
                        \/ sorted[j].expenses.n > sorted[i].expenses.n
                        \/ (sorted[j].expenses.n = sorted[i].expenses.n /\ j < i)})
    IN  [i \in 1..Len(sorted) |->
            [name |-> sorted[i].name, revenue |-> sorted[i].revenue,
             expenses |-> sorted[i].expenses, profit |-> sorted[i].profit,
             fill |-> COLORS[(rank(i) % Len(COLORS)) + 1]]]

\* lines 185-191: deptChartData, each aggregate with the colour of its
\* position in the by-name order (the margin, a display ratio, is left out)
DeptChartData(stats) ==
    LET sorted == SortByName(stats, Len(stats))
    IN  [i \in 1..Len(sorted) |->
            [name |-> sorted[i].name, revenue |-> sorted[i].revenue,
             expenses |-> sorted[i].expenses, profit |-> sorted[i].profit,
             fill |-> COLORS[((i - 1) % Len(COLORS)) + 1]]]

\* line 195: sort((a, b) => b.expenses - a.expenses), a stable sort
RECURSIVE InsertByExpenses(_, _)
InsertByExpenses(sorted, x) ==
    IF sorted = <<>> THEN <<x>>
    ELSE IF x.expenses.n - sorted[Len(sorted)].expenses.n <= 0 THEN Append(sorted, x)
    ELSE Append(InsertByExpenses(SubSeq(sorted, 1, Len(sorted) - 1), x),
                sorted[Len(sorted)])

RECURSIVE SortByExpenses(_, _)
SortByExpenses(chart, n) ==
    IF n = 0 THEN <<>>
    ELSE InsertByExpenses(SortByExpenses(chart, n - 1), chart[n])

\* slice(0, k)
SliceTo(s, k) == SubSeq(s, 1, IF Len(s) < k THEN Len(s) ELSE k)

\* line 195: expensesByDept
ExpensesByDept(chart) == SliceTo(SortByExpenses(chart, Len(chart)), TopExpenses)

\* line 205: the comparator b._derivedProfit - a._derivedProfit; a NaN
\* result counts as 0
ProfitComparator(a, b) ==
    IF JsSub(b.derivedProfit, a.derivedProfit).kind = "nan" THEN 0
    ELSE JsSub(b.derivedProfit, a.derivedProfit).n

\* line 205: the sort of the top orders, a stable insertion sort (the
\* engine's sort of a short array); with a comparator that answers 0 for
\* NaN the order it leaves is the one computed here.
RECURSIVE InsertByProfit(_, _)
InsertByProfit(sorted, x) ==
    IF sorted = <<>> THEN <<x>>
    ELSE IF ProfitComparator(sorted[Len(sorted)], x) <= 0 THEN Append(sorted, x)
    ELSE Append(InsertByProfit(SubSeq(sorted, 1, Len(sorted) - 1), x),
                sorted[Len(sorted)])

RECURSIVE SortByProfit(_, _)
SortByProfit(orders, n) ==
    IF n = 0 THEN <<>>
    ELSE InsertByProfit(SortByProfit(orders, n - 1), orders[n])

\* lines 198-206: topOrders
TopOrders(rows, keys) ==
    LET orders == [i \in 1..Len(rows) |->
                      [row |-> rows[i], derivedProfit |-> TopOrderProfit(rows[i], keys)]]
    IN  SliceTo(SortByProfit(orders, Len(orders)), TopOrdersCount)

\* lines 131-216: analytics, null for an empty buffer
Analytics(rows) ==
    IF Len(rows) = 0 THEN Null
    ELSE LET keys == RoleKeys(rows[1])
             deptStats == DeptStats(rows, Len(rows), keys)
             deptChartData == DeptChartData(deptStats)
         IN  [kind |-> "analytics",
              keys |-> keys,
              monthlyChartData |-> MonthlyChartData(rows, keys),
              deptStats |-> deptStats,
              deptChartData |-> deptChartData,
              expensesByDept |-> ExpensesByDept(deptChartData),
              topOrders |-> TopOrders(rows, keys),
              rowProfit |-> [i \in 1..Len(rows) |-> RowProfit(rows[i], keys)],
              derivedProfit |-> [i \in 1..Len(rows) |-> TopOrderProfit(rows[i], keys)]]

----------------------------------------------------------------------------
(* SpecAgg: the aggregation driven by rows of arbitrary shape.  The default *)
(* table has loaded empty and its channel is subscribed; every step is an  *)
(* INSERT event carrying one of the rows below.                            *)

T_Sales == <<"S", "a", "l", "e", "s">>
T_Ops == <<"O", "p", "s">>
T_abc == <<"a", "b", "c">>
T_70 == <<"7", "0">>
T_constructor == <<"c", "o", "n", "s", "t", "r", "u", "c", "t", "o", "r">>

AggRows ==
    { \* a plain row, no profit column
      <<[key |-> K_id, val |-> Num(1)],
        [key |-> K_department, val |-> Str(T_Sales)],
        [key |-> K_revenue, val |-> Num(100)],
        [key |-> K_cost, val |-> Num(40)],
        [key |-> K_created_at, val |-> DateStr(2024, 0, 5)]>>,
      \* a loss, the next month
      <<[key |-> K_id, val |-> Num(2)],
        [key |-> K_department, val |-> Str(T_Ops)],
        [key |-> K_revenue, val |-> Num(50)],
        [key |-> K_cost, val |-> Num(60)],
        [key |-> K_created_at, val |-> DateStr(2024, 1, 10)]>>,
      \* null category, non-numeric revenue, a date that does not parse
      <<[key |-> K_id, val |-> Num(3)],
        [key |-> K_department, val |-> Null],
        [key |-> K_revenue, val |-> Str(T_abc)],
        [key |-> K_cost, val |-> Num(10)],
        [key |-> K_created_at, val |-> Str(T_abc)]>>,
      \* numeric text revenue, non-numeric cost, profit 0, null date
      <<[key |-> K_id, val |-> Num(4)],
        [key |-> K_department, val |-> Str(T_Sales)],
        [key |-> K_revenue, val |-> Str(T_70)],
        [key |-> K_cost, val |-> Str(T_abc)],
        [key |-> K_profit, val |-> Num(0)],
        [key |-> K_created_at, val |-> Null]>>,
      \* a category named like an inherited key, non-numeric profit, a
      \* month whose short label is that of January 2024
      <<[key |-> K_id, val |-> Num(5)],
        [key |-> K_department, val |-> Str(T_constructor)],
        [key |-> K_revenue, val |-> Num(30)],
        [key |-> K_cost, val |-> Num(5)],
        [key |-> K_profit, val |-> Str(T_abc)],
        [key |-> K_created_at, val |-> DateStr(1924, 0, 20)]>>,
      \* no category column, no date column, null profit
      <<[key |-> K_id, val |-> Num(6)],
        [key |-> K_revenue, val |-> Num(20)],
        [key |-> K_cost, val |-> Num(5)],
        [key |-> K_profit, val |-> Null]>>,
      \* an explicit profit that is not revenue - cost
      <<[key |-> K_id, val |-> Num(7)],
        [key |-> K_department, val |-> Str(T_Ops)],
        [key |-> K_revenue, val |-> Num(10)],
        [key |-> K_cost, val |-> Num(2)],
        [key |-> K_profit, val |-> Num(7)],
        [key |-> K_created_at, val |-> DateStr(2023, 11, 31)]>> }

AggInit ==
    /\ tableName = DefaultTable
    /\ data = <<>>
    /\ loading = FALSE
    /\ error = Null
    /\ tableExists = TRUE
    /\ insights = Null
    /\ analyzing = FALSE
    /\ fetches = <<>>
    /\ analyses = <<>>
    /\ channel = DefaultTable
    /\ delivered = 0

AggNext == \E row \in AggRows : delivered < MaxAggRows /\ RealtimeInsert(row)

SpecAgg == AggInit /\ [][AggNext]_vars

----------------------------------------------------------------------------
(* SpecLoad: the fetch cycle driven by tables of arbitrary content.  The    *)
(* mount fetch and every refresh resolve to one of the row sets below, all *)
(* far shorter than the limit of line 65.                                  *)

\* Categories of one row set.
MaxDepts == 11
\* Row sets that differ in the order their categories arrive.
MaxRotation == 2

DeptNames ==
    << <<"o", "p", "s">>,
       <<"A", "d", "s">>,
       <<"s", "a", "l", "e", "s">>,
       <<"I", "T">>,
       <<"h", "r">>,
       <<"S", "a", "l", "e", "s">>,
       <<"d", "e", "v">>,
       <<"Q", "A">>,
       <<"a", "d", "s">>,
       <<"w", "e", "b">>,
       <<"R", "-", "D">>,
       <<"u", "x">> >>

\* The cost of the i-th row: rising, repeating with ties, or constant.
CostPattern(e, i) ==
    CASE e = 1 -> i
      [] e = 2 -> (i * 7) % 5
      [] OTHER -> 4

\* n rows; the i-th is of the category at (i - 1 + r) mod c of DeptNames
DeptRows(n, r, c, e) ==
    [i \in 1..n |->
        <<[key |-> K_id, val |-> Num(i)],
          [key |-> K_department, val |-> Str(DeptNames[((i - 1 + r) % c) + 1])],
          [key |-> K_revenue, val |-> Num(10 + ((i * 3) % 7))],
          [key |-> K_cost, val |-> Num(CostPattern(e, i))]>>]

DeptRowSets ==
    {DeptRows(n, r, c, e) : n \in 1..MaxDepts, r \in 0..MaxRotation,
                            c \in {3, Len(DeptNames)}, e \in 1..3}

C_Order_Date == <<"O", "r", "d", "e", "r", "_", "D", "a", "t", "e">>
C_TotalCost == <<"T", "o", "t", "a", "l", "C", "o", "s", "t">>
C_dept_name == <<"d", "e", "p", "t", "_", "n", "a", "m", "e">>
C_ID == <<"I", "D">>
C_identifier == <<"i", "d", "e", "n", "t", "i", "f", "i", "e", "r">>
C_x == <<"x">>
C_net_sales == <<"n", "e", "t", "_", "s", "a", "l", "e", "s">>
C_Sales_Net == <<"S", "a", "l", "e", "s", "_", "N", "e", "t">>
C_datetime == <<"d", "a", "t", "e", "t", "i", "m", "e">>
C_created_at_utc == <<"c", "r", "e", "a", "t", "e", "d", "_", "a", "t", "_", "u", "t", "c">>
C_paid == <<"p", "a", "i", "d">>
C_Category == <<"C", "a", "t", "e", "g", "o", "r", "y">>

\* First rows whose column names match candidates by substring, by case,
\* against the order of the columns, or not at all.
KeyRows ==
    { <<[key |-> C_Order_Date, val |-> DateStr(2024, 2, 1)],
        [key |-> C_TotalCost, val |-> Num(12)],
        [key |-> C_dept_name, val |-> Str(T_Ops)],
        [key |-> C_ID, val |-> Num(1)]>>,
      <<[key |-> K_name, val |-> Str(T_abc)],
        [key |-> K_order, val |-> Num(7)],
        [key |-> C_identifier, val |-> Num(2)]>>,
      <<[key |-> C_x, val |-> Num(3)]>>,
      <<[key |-> C_Sales_Net, val |-> Num(9)],
        [key |-> C_net_sales, val |-> Num(8)],
        [key |-> K_group, val |-> Str(T_Sales)]>>,
      <<[key |-> K_time, val |-> DateStr(2024, 0, 1)],
        [key |-> C_datetime, val |-> DateStr(2024, 1, 1)],
        [key |-> C_created_at_utc, val |-> DateStr(2024, 2, 1)]>>,
      <<[key |-> K_expenses, val |-> Num(5)],
        [key |-> C_Category, val |-> Str(T_Sales)],
        [key |-> K_price, val |-> Num(6)],
        [key |-> K_margin, val |-> Num(1)],
        [key |-> C_paid, val |-> Num(1)]>> }

\* Tables of rows of mixed shape: the rows of SpecAgg in pairs, and the
\* first, second and fifth of them in threes.
MixedRowSets ==
    {<<a, b>> : a \in AggRows, b \in AggRows}
        \cup (LET some == {r \in AggRows : Get(r, K_id).n \in {1, 2, 5}}
              IN  {<<a, b, c>> : a \in some, b \in some, c \in some})

LoadRowSets ==
    DeptRowSets \cup {<<k>> : k \in KeyRows} \cup MixedRowSets

LoadNext ==
    \/ RefreshClick
    \/ \E i \in 1..Len(fetches) : CheckTableDone(i, TRUE)
    \/ \E i \in 1..Len(fetches) :
          \E rows \in LoadRowSets : SelectDone(i, [ok |-> TRUE, rows |-> rows])

SpecLoad == Init /\ [][LoadNext]_vars

\* the aggregates of the current buffer (useMemo on [data], line 216)
analytics == Analytics(data)

\* lines 220-251: the aggregates on screen: those of the buffer in the
\* dashboard view, none in every other view
ShownAggregates ==
    IF View(loading, error, data) = "dashboard" THEN analytics ELSE Null

\* lines 228-237: the form to enter another table name is on screen
RecoveryOffered == View(loading, error, data) = "error"

----------------------------------------------------------------------------
(* Claims *)

\* C1: the buffer never holds more than RowLimit rows (the code's 1000), and
\* an INSERT event leaves the buffer as the old buffer with the new row
\* appended, cut from the front to the last RowLimit rows: the new row is
\* the last one and the rows kept before it are the newest of the old ones,
\* in their order.
C1_BufferBounded ==
    /\ [](Len(data) <= RowLimit)
    /\ [][delivered' # delivered =>
            LET new == LiveRow(channel, delivered')
                keep == IF Len(data) < RowLimit THEN Len(data) ELSE RowLimit - 1
            IN  /\ Len(data') = keep + 1
                /\ data'[Len(data')] = new
                /\ \A j \in 1..keep : data'[j] = data[Len(data) - keep + j]]_vars

\* A full buffer whose first row is the second row of "events" and whose
\* last row is the newest live row: the first row of the fetch was evicted.
C1_Witness ==
    /\ Len(data) = RowLimit
    /\ delivered >= 1
    /\ data[1] = StoredRow("events", 2)
    /\ data[Len(data)] = LiveRow("events", delivered)

\* C2 (as claimed): in every state, every buffered row is a row of the
\* active table and the insights, if any, are insights on the active table:
\* nothing of a previous table survives a change of the table name.
C2_PreviousTableDiscarded ==
    /\ \A i \in 1..Len(data) : data[i] \in RowsOfTable(tableName)
    /\ insights # Null => insights.table = tableName

\* C3 (as claimed): at most one fetchData invocation is in flight.
C3_NoOverlappingFetch == Len(fetches) <= 1

\* C4: at most one generateInsights request is outstanding, and a request is
\* outstanding exactly while analyzing is set.
C4_SingleAnalysis ==
    /\ Len(analyses) <= 1
    /\ analyzing <=> (Len(analyses) = 1)

\* A request outstanding after a live update, while a refetch runs.
C4_Witness == Len(analyses) = 1 /\ delivered >= 1 /\ Len(fetches) >= 1

\* C5 (as claimed): a live update on a non-empty buffer starts no
\* generateInsights request.
C5_NoRetriggerOnLiveUpdate ==
    [][(delivered' # delivered /\ Len(data) > 0) =>
            Len(analyses') <= Len(analyses)]_vars

\* C6: while an error is set no aggregate is on screen and the form to enter
\* another table is; a step that ends a fetch leaves loading cleared.
C6_ErrorHalts ==
    /\ [](error # Null => (ShownAggregates = Null /\ RecoveryOffered))
    /\ [][Len(fetches') < Len(fetches) => ~loading']_vars

\* An error set over rows buffered before it, no fetch in flight.
C6_Witness == error # Null /\ Len(data) > 0 /\ Len(fetches) = 0

\* C7 (as claimed): the profit of a row is the numeric coercion of its
\* profit value when it has one, and revenue - expense when the value is
\* absent (undefined or null); the derived profit of the ranking is the same.
C7_ProfitByPresence ==
    analytics # Null =>
        \A i \in 1..Len(data) :
            LET v == Get(data[i], analytics.keys.profitKey)
                expected ==
                    IF v.kind \notin {"undefined", "null"} THEN ToNumber(v)
                    ELSE JsSub(RowRev(data[i], analytics.keys),
                               RowExp(data[i], analytics.keys))
            IN  /\ analytics.rowProfit[i] = expected
                /\ analytics.derivedProfit[i] = expected

\* C8 (as claimed): every total of every monthly and category aggregate is
\* a number.
C8_TotalsAreNumbers ==
    analytics # Null =>
        /\ \A i \in 1..Len(analytics.monthlyChartData) :
              /\ analytics.monthlyChartData[i].revenue.kind = "num"
              /\ analytics.monthlyChartData[i].profit.kind = "num"
        /\ \A i \in 1..Len(analytics.deptStats) :
              /\ analytics.deptStats[i].revenue.kind = "num"
              /\ analytics.deptStats[i].expenses.kind = "num"
              /\ analytics.deptStats[i].profit.kind = "num"

RECURSIVE SumRevenue(_, _)
SumRevenue(buckets, n) ==
    IF n = 0 THEN Num(0) ELSE JsAdd(SumRevenue(buckets, n - 1), buckets[n].revenue)

RECURSIVE SumRowRevenue(_, _, _)
SumRowRevenue(rows, n, keys) ==
    IF n = 0 THEN Num(0)
    ELSE JsAdd(SumRowRevenue(rows, n - 1, keys), RowRev(rows[n], keys))

\* C9 (as claimed): the revenue of the category aggregates, and of the
\* monthly aggregates, sums to the revenue of the rows.
C9_RevenueConserved ==
    analytics # Null =>
        LET total == SumRowRevenue(data, Len(data), analytics.keys)
        IN  /\ SumRevenue(analytics.deptStats, Len(analytics.deptStats)) = total
            /\ SumRevenue(analytics.monthlyChartData,
                          Len(analytics.monthlyChartData)) = total

\* C10 (as claimed): the monthly aggregates are in ascending sortKey order,
\* and when a row has a missing (undefined or null) or unparseable date
\* there is one "Unknown" aggregate, with sortKey 0, and it comes first.
C10_MonthlySortedUnknownFirst ==
    analytics # Null =>
        LET m == analytics.monthlyChartData
            noDate == \E i \in 1..Len(data) :
                         Get(data[i], analytics.keys.dateKey).kind
                             \in {"undefined", "null", "str"}
        IN  /\ \A i, j \in 1..Len(m) : i < j => m[i].sortKey <= m[j].sortKey
            /\ noDate =>
                  /\ Cardinality({i \in 1..Len(m) : m[i].month = UnknownLabel}) = 1
                  /\ m[1].month = UnknownLabel
                  /\ m[1].sortKey = 0

\* C11 (as claimed): there is one monthly aggregate per distinct calendar
\* month of the rows, and every row folded into an aggregate (the rows of
\* its label) has the aggregate's sortKey, year * 100 + month index.
C11_OneBucketPerCalendarMonth ==
    analytics # Null =>
        LET m == analytics.monthlyChartData
            rm(i) == RowMonth(data[i], analytics.keys)
        IN  /\ Len(m) = Cardinality({rm(i).sortKey : i \in 1..Len(data)})
            /\ \A b \in 1..Len(m) : \A i \in 1..Len(data) :
                  rm(i).month = m[b].month => rm(i).sortKey = m[b].sortKey

\* C12: the category aggregates are in ascending order of name, each has the
\* colour COLORS[i mod 8] of its zero-based position i in that order, and
\* every entry of the by-expense view has the colour its category has in
\* the by-name view.
C12_ColourByNameOrder ==
    analytics # Null =>
        LET an == analytics
            chart == an.deptChartData
            top == an.expensesByDept
            stats == an.deptStats
        IN  /\ \A i, j \in 1..Len(chart) :
                  i < j => localeCompare(chart[i].name, chart[j].name) < 0
            /\ {chart[i].name : i \in 1..Len(chart)}
                  = {stats[i].name : i \in 1..Len(stats)}
            /\ \A i \in 1..Len(chart) : chart[i].fill = COLORS[((i - 1) % 8) + 1]
            /\ \A k \in 1..Len(top) : \E i \in 1..Len(chart) :
                  chart[i].name = top[k].name /\ chart[i].fill = top[k].fill

\* More categories than colours, so the ninth takes the first colour again,
\* and a by-expense view led by another category than the by-name view.
C12_Witness ==
    /\ analytics # Null
    /\ Len(analytics.deptChartData) > 8
    /\ analytics.deptChartData[9].fill = COLORS[1]
    /\ analytics.expensesByDept[1].name # analytics.deptChartData[1].name
    /\ Len(fetches) = 0

\* a > b on numbers; false when either is NaN
Greater(a, b) == a.kind = "num" /\ b.kind = "num" /\ a.n > b.n

\* C13 (as claimed): the by-expense view holds min(5, number of distinct
\* categories of the rows) entries in non-increasing order of expenses, ties
\* in by-name order; the by-profit view holds min(10, number of rows)
\* entries in non-increasing order of derived profit; nothing left out of a
\* view has a strictly larger key than an entry of it.
C13_TopViews ==
    analytics # Null =>
        LET top == analytics.expensesByDept
            chart == analytics.deptChartData
            orders == analytics.topOrders
            cats == {RowDept(data[i], analytics.keys) : i \in 1..Len(data)}
        IN  /\ Len(top) = (IF Cardinality(cats) < 5 THEN Cardinality(cats) ELSE 5)
            /\ \A i, j \in 1..Len(top) : i < j =>
                  /\ ~Greater(top[j].expenses, top[i].expenses)
                  /\ top[i].expenses = top[j].expenses =>
                        localeCompare(top[i].name, top[j].name) < 0
            /\ \A c \in 1..Len(chart) :
                  (\A k \in 1..Len(top) : top[k].name # chart[c].name) =>
                      \A k \in 1..Len(top) : ~Greater(chart[c].expenses, top[k].expenses)
            /\ Len(orders) = (IF Len(data) < 10 THEN Len(data) ELSE 10)
            /\ \A i, j \in 1..Len(orders) : i < j =>
                  ~Greater(orders[j].derivedProfit, orders[i].derivedProfit)
            /\ \A r \in 1..Len(data) :
                  (\A k \in 1..Len(orders) : orders[k].row # data[r]) =>
                      \A k \in 1..Len(orders) :
                          ~Greater(analytics.derivedProfit[r], orders[k].derivedProfit)

\* The key a role resolves to as the claim words it: the first candidate of
\* the list contained in the lower-case form of some column of the row
\* wins, the key is the first column containing it, and without a winner
\* the key is the default.
ResolvedKey(row, candidates, default) ==
    LET lower(i) == ToLowerCase(row[i].key)
        winners == {j \in 1..Len(candidates) :
                       \E i \in 1..Len(row) : Includes(lower(i), candidates[j])}
    IN  IF winners = {} THEN default
        ELSE LET won == candidates[MinOf(winners)]
             IN  row[MinOf({i \in 1..Len(row) : Includes(lower(i), won)})].key

\* C14 (as claimed): every role key of the aggregates is resolved from the
\* first row by candidate priority, and an unresolved role takes its own
\* lower-case name: "category", "revenue", "expense", "profit", "id",
\* and "created_at" for the date.
C14_RoleKeysOwnNameDefault ==
    analytics # Null =>
        LET keys == analytics.keys
        IN  /\ keys.dateKey = ResolvedKey(data[1], DateCandidates, K_created_at)
            /\ keys.deptKey = ResolvedKey(data[1], DeptCandidates, K_category)
            /\ keys.revKey = ResolvedKey(data[1], RevCandidates, K_revenue)
            /\ keys.expKey = ResolvedKey(data[1], ExpCandidates, K_expense)
            /\ keys.profitKey = ResolvedKey(data[1], ProfitCandidates, K_profit)
            /\ keys.idKey = ResolvedKey(data[1], IdCandidates, K_id)

\* C14 (amended): every role key of the aggregates is resolved from the
\* first row by candidate priority, and an unresolved role takes the default
\* "created_at", "department", "revenue", "expenses", "profit" or "id".
C14_RoleKeysByPriority ==
    analytics # Null =>
        LET keys == analytics.keys
        IN  /\ keys.dateKey = ResolvedKey(data[1], DateCandidates, K_created_at)
            /\ keys.deptKey = ResolvedKey(data[1], DeptCandidates, K_department)
            /\ keys.revKey = ResolvedKey(data[1], RevCandidates, K_revenue)
            /\ keys.expKey = ResolvedKey(data[1], ExpCandidates, K_expenses)
            /\ keys.profitKey = ResolvedKey(data[1], ProfitCandidates, K_profit)
            /\ keys.idKey = ResolvedKey(data[1], IdCandidates, K_id)

\* A first row whose third column holds the first id candidate while its
\* first two hold later ones, and that resolves no category and no expense.
C14_Witness ==
    /\ analytics # Null
    /\ data[1][1].key = K_name
    /\ analytics.keys.idKey = C_identifier
    /\ analytics.keys.deptKey = K_department
    /\ analytics.keys.expKey = K_expenses

\* C15 (as claimed): a fetch started for a previous table name never writes
\* the state of the current table: a step that advances or ends a fetch
\* while every fetch in flight is for another table than tableName leaves
\* the buffer, the error and tableExists as they were.
C15_StaleFetchIgnored ==
    [][(/\ Len(fetches) > 0
        /\ \A i \in 1..Len(fetches) : fetches[i].table # tableName
        /\ tableName' = tableName
        /\ fetches' # fetches
        /\ Len(fetches') <= Len(fetches))
          => UNCHANGED <<data, error, tableExists>>]_vars

====
